---- MODULE Spec2Model ----
(***************************************************************************)
(* Model of the container lifecycle of hotto-docker (dockerust):           *)
(*   RunCommand::create_container / create_container_blocking,             *)
(*   Container::new, Container::block_until_ready,                         *)
(*   LogsCommand::wait_for_message_in_stdout / _in_stderr,                 *)
(*   impl Drop for Container (stop_blocking / rm_blocking),                *)
(*   Ports::add_mapping / Ports::map_to_host_port,                         *)
(*   InspectCommand::get_container_info / get_container_ports and          *)
(*   Ports::into_ports (docker_parse.rs), Container::get_host_port,        *)
(*   Container::print_stdout / print_stderr / run_background_logs and the  *)
(*   worker thread it spawns, RunCommand::docker_run (the argument list).  *)
(* Option<T> values are sequences of length at most one:                   *)
(*   None is <<>>, Some(x) is <<x>>.                                       *)
(***************************************************************************)
EXTENDS Integers, Sequences, FiniteSets, TLC

\* ------------------------------------------------------------------ bounds
\* Latest instant of the clock.
MaxTime == 3
\* Most lines the container writes to its log (both streams together).
MaxLines == 2
\* Largest wait_duration of a readiness specification.
MaxDuration == 2
\* Largest port number of the port table's inputs.
MaxPort == 1
\* Most container descriptions in one inspect response.
MaxInfos == 2
\* Most get_host_port calls made on one handle.
MaxCalls == 2
\* Most lines the container writes while a worker tails it.
MaxOutput == 3
\* The lines a pipe holds before a write to it blocks.
PipeLines == 1
\* The mounts of an image.
MaxMounts == 2
\* The arguments of an image.
MaxArgs == 2

\* ------------------------------------------------------------- vocabulary
None == <<>>
Some(x) == <<x>>

StreamTypes == {"StdOut", "StdErr"}

\* Log lines and markers are strings over a two-letter alphabet.
Lines == {<<"a">>, <<"b">>, <<"b", "a">>}
Messages == {<<"a">>, <<"b", "a">>}
Durations == 1..MaxDuration

\* Values of the process environment variable KEEP_CONTAINERS (None: unset).
EnvValues == {None, Some("true"), Some("false"), Some("1")}

\* The identifier the engine prints on the first stdout line of `docker run`.
EngineId == "c1"

WaitForValues ==
    {[kind |-> "Nothing"]} \cup
    [kind : {"LogMessage"}, message : Messages,
     stream_type : StreamTypes, wait_duration : Durations]

\* GenericImage::new(descriptor).with_wait_for(wait_for): no environment
\* variables, no mounts, no network, no arguments.
GenericImage(descriptor, wait_for) ==
    [descriptor |-> descriptor, wait_for |-> wait_for, env_vars |-> <<>>,
     mounts |-> <<>>, network |-> None, args |-> <<>>]

\* Names and values of an image's environment variables and of the entries
\* of its mounts, as character sequences; its networks and arguments.
EnvKeys == {<<"K">>, <<"L">>}
EnvVarValues == {<<"1">>, <<>>}
MountKeys == {<<"s">>, <<"t">>}
MountValues == {<<"v">>}
Networks == {"net"}
Args == {"x", "y"}
EnvMaps == UNION {[keys -> EnvVarValues] : keys \in SUBSET EnvKeys}
MountMaps == UNION {[keys -> MountValues] : keys \in SUBSET MountKeys}

\* The images built with with_env_var, with_mount, with_network, with_args.
RunImages ==
    [descriptor : {"img"},
     wait_for : {[kind |-> "Nothing"]},
     env_vars : EnvMaps,
     mounts : UNION {[1..n -> MountMaps] : n \in 0..MaxMounts},
     network : {None} \cup {Some(n) : n \in Networks},
     args : UNION {[1..n -> Args] : n \in 0..MaxArgs}]

PortNumbers == 0..MaxPort

\* Strings of an inspect response are sequences of characters: the keys of
\* NetworkSettings.Ports ("5432/tcp", "5432/udp", "5433/tcp") and the
\* HostPort values ("49155", "49156", "").
InternalKeys ==
    {<<"5", "4", "3", "2", "/", "t", "c", "p">>,
     <<"5", "4", "3", "2", "/", "u", "d", "p">>,
     <<"5", "4", "3", "3", "/", "t", "c", "p">>}
HostPorts == {<<"4", "9", "1", "5", "5">>, <<"4", "9", "1", "5", "6">>, <<>>}

\* The host port the engine picks when it publishes a port late.
EphemeralPorts == {<<"4", "9", "1", "5", "5">>}

PortMapping(host_port) == [ip |-> "0.0.0.0", port |-> host_port]

\* The binding lists of one port entry: none, one, or two different bindings.
BindingLists ==
    {<<>>} \cup {<<PortMapping(h)>> : h \in HostPorts}
           \cup {l \in {<<PortMapping(a), PortMapping(b)>> :
                            a \in HostPorts \ {<<>>}, b \in HostPorts \ {<<>>}} :
                    l[1] # l[2]}

\* HashMap<String, Option<Vec<PortMapping>>>: a function on the keys present.
PortMaps ==
    UNION {[keys -> {None} \cup {Some(l) : l \in BindingLists}] :
             keys \in SUBSET InternalKeys}

ContainerInfo(id, port_map) ==
    [id |-> id, network_settings |-> [ports |-> port_map]]

\* The description of a container other than the inspected one.
OtherInfos ==
    {ContainerInfo("c2", [k \in {<<"5", "4", "3", "2", "/", "t", "c", "p">>} |->
                            Some(<<PortMapping(<<"4", "9", "1", "5", "6">>)>>)])}

\* What `docker inspect` can print: text that is not a JSON array of
\* descriptions, or an array of 0..MaxInfos descriptions, the first one of
\* the inspected container.
Responses ==
    {[well_formed |-> FALSE, infos |-> <<>>], [well_formed |-> TRUE, infos |-> <<>>]}
    \cup UNION {{[well_formed |-> TRUE, infos |-> <<ContainerInfo(EngineId, m)>> \o rest] :
                   m \in PortMaps, rest \in [1..(n - 1) -> OtherInfos]} :
                 n \in 1..MaxInfos}

\* The internal ports a caller asks get_host_port about.
InternalPorts == {5432, 5433}

VARIABLES
    image,          \* the image specification: [wait_for]
    blocking,       \* TRUE: create_container_blocking, FALSE: create_container
    KEEP_CONTAINERS,\* the environment variable, an Option<String>
    pc,             \* position of the creating caller
    container,      \* Option<Container>: [id, startup_timestamp, tokio_runtime]
    borrowed,       \* RefCell<Runtime>: a RefMut is alive (block_on in progress)
    cmds,           \* engine commands spawned so far, in order: [argv, by]
    engine,         \* engine-side container: "absent", "running", "exited", "removed"
    containerLog,   \* what the container wrote: [StreamTypes -> Seq(Lines)]
    streamFault,    \* the log pipe reports an I/O fault on its next read
    now,            \* the clock
    start_time,     \* wait_for_message: SystemTime::now() taken before the loop
    number_of_compared_lines,
    reads,          \* history: what each next_line() returned and when
    waitResult,     \* Option: what wait_for_message returned
    result,         \* Option: what create_container returned to its caller
    panic,          \* Option: the panic that ended the caller
    dropCount,      \* history: how many times Drop::drop ran for the container
    keepAtDrop,     \* history: KEEP_CONTAINERS when Drop::drop ran
    binary,         \* the `docker` binary can be started (Command::spawn is Ok)
    logsProc,       \* the readiness wait's `docker logs -f`: "none", "running"
                    \* (following a running container), "exited" (it has ended
                    \* or ends by itself after the output of a stopped container)
    ports,          \* a Ports value: the mapping, a function on its key set
    lastAdd,        \* history: the last add_mapping call made on `ports`
    lastLookup,     \* history: the last map_to_host_port call made on `ports`
    registered,     \* history: the internal ports ever passed to add_mapping
    response,       \* what `docker inspect <id>` prints now: [well_formed, infos]
    inspections,    \* history: the get_host_port calls made on the handle
    workers,        \* threads spawned by run_background_logs: [stdout, stderr, state]
    logCalls        \* history: the log-access calls made on the handle

lifecycleVars ==
    <<image, blocking, KEEP_CONTAINERS, pc, container, borrowed, cmds, engine,
      containerLog, streamFault, now, start_time, number_of_compared_lines,
      reads, waitResult, result, panic, dropCount, keepAtDrop, binary, logsProc>>
portVars == <<ports, lastAdd, lastLookup, registered>>
inspectVars == <<response, inspections>>
logVars == <<workers, logCalls>>
nonLifecycleVars == <<portVars, inspectVars, logVars>>
vars == <<lifecycleVars, nonLifecycleVars>>

\* ------------------------------------------------------ pure functions
\* str::contains: `message` occurs in `line` as a contiguous substring.
Contains(line, message) ==
    \E i \in 0..(Len(line) - Len(message)) :
        SubSeq(line, i + 1, i + Len(message)) = message

\* <bool as FromStr>::from_str, with .ok(): only "true" and "false" parse.
parse_bool(s) ==
    IF s = "true" THEN Some(TRUE)
    ELSE IF s = "false" THEN Some(FALSE)
    ELSE None

\* var("KEEP_CONTAINERS").ok().and_then(|var| var.parse().ok()).unwrap_or(false)
keep_container(env) ==
    IF env = None THEN FALSE
    ELSE IF parse_bool(env[1]) = None THEN FALSE
    ELSE parse_bool(env[1])[1]

\* ----------------------------------------------------- engine commands
\* The orders in which a HashMap with key set `keys` can be iterated.
Orders(keys) ==
    {o \in [1..Cardinality(keys) -> keys] :
        \A i, j \in 1..Cardinality(keys) : i # j => o[i] # o[j]}

\* format!("{}={}", key, value) on strings given as character sequences.
format_kv(key, value) == key \o <<"=">> \o value

\* [String]::join(sep).
RECURSIVE join(_, _)
join(parts, sep) ==
    IF parts = <<>> THEN <<>>
    ELSE IF Len(parts) = 1 THEN parts[1]
    ELSE parts[1] \o sep \o join(Tail(parts), sep)

\* docker_run, `for (key, value) in image.env_vars()`: "-e" and "key=value"
\* for each entry, the HashMap being iterated in the order `order`.
RECURSIVE env_args(_, _)
env_args(env_vars, order) ==
    IF order = <<>> THEN <<>>
    ELSE <<"-e", format_kv(Head(order), env_vars[Head(order)])>>
         \o env_args(env_vars, Tail(order))

\* docker_run, `for value in image.mounts()`: "--mount" and the "key=value"
\* of the mount's entries joined by ",", each mount's HashMap being iterated
\* in its order of `orders`.
RECURSIVE mount_args(_, _)
mount_args(mounts, orders) ==
    IF mounts = <<>> THEN <<>>
    ELSE LET value == Head(mounts)
             order == Head(orders)
         IN <<"--mount",
              join([j \in 1..Len(order) |-> format_kv(order[j], value[order[j]])],
                   <<",">>)>>
            \o mount_args(Tail(mounts), Tail(orders))

\* docker_run, `if let Some(network) = image.network()`.
network_args(network) ==
    IF network = None THEN <<>> ELSE <<"--network", network[1]>>

\* Mutant: the run command is built without -P.
docker_run_unpublished(img, env_order, mount_orders) ==
    [argv |-> <<"docker", "run">>
              \o env_args(img.env_vars, env_order)
              \o mount_args(img.mounts, mount_orders)
              \o network_args(img.network)
              \o <<"-d", img.descriptor>>
              \o img.args,
     by |-> "docker_run"]

\* RunCommand::docker_run: the command it builds for image `img` when the
\* HashMap of environment variables is iterated in `env_order` and the
\* HashMap of the i-th mount in `mount_orders[i]`.
docker_run(img, env_order, mount_orders) ==
    [argv |-> <<"docker", "run">>
              \o env_args(img.env_vars, env_order)
              \o mount_args(img.mounts, mount_orders)
              \o network_args(img.network)
              \o <<"-d", "-P", img.descriptor>>
              \o img.args,
     by |-> "docker_run"]

\* The orders in which the HashMaps of the mounts can be iterated, one per
\* mount.
MountOrders(mounts) ==
    {o \in [1..Len(mounts) -> UNION {Orders(DOMAIN mounts[i]) : i \in 1..Len(mounts)}] :
        \A i \in 1..Len(mounts) : o[i] \in Orders(DOMAIN mounts[i])}

\* LogsCommand::wait_for_message_in_stdout / _in_stderr: `docker logs -f <id>`.
logs_follow(id, stream_type) ==
    [argv |-> <<"docker", "logs", "-f", id>>,
     by |-> IF stream_type = "StdOut" THEN "wait_for_message_in_stdout"
            ELSE "wait_for_message_in_stderr"]

\* Mutant: the logs command delivers the output from its second line on.
followed_lines_skip(log) == IF log = <<>> THEN <<>> ELSE Tail(log)

\* What the stdout / stderr pipe of a freshly spawned `docker logs -f <id>`
\* delivers of the output `log` the container has written to that stream:
\* the command is given no --tail and no --since, so all of it, from the
\* first line, whenever the command is started.
followed_lines(log) == log

\* RmCommand::rm_container: `docker rm -f -v <id>`.
rm_container(id) ==
    [argv |-> <<"docker", "rm", "-f", "-v", id>>, by |-> "rm_container"]

\* StopCommand::stop_container: `docker stop <id>`.
stop_container(id) ==
    [argv |-> <<"docker", "stop", id>>, by |-> "stop_container"]

\* ------------------------------------------------------ readiness wait
\* Mutant: block_until_ready treats every WaitFor as Nothing.
readiness_stream_never(wait_for) == None

\* Mutant: block_until_ready watches stdout whatever the WaitFor says.
readiness_stream_always(wait_for) == Some("StdOut")

\* Container::block_until_ready: the stream the image's WaitFor asks to watch,
\* None when it asks for nothing.
readiness_stream(wait_for) ==
    IF wait_for.kind = "LogMessage" THEN Some(wait_for.stream_type) ELSE None

\* Mutant: an expired deadline is reported as the end of the stream.
compare_line_eos(line, elapsed, message, wait_duration) ==
    IF Contains(line, message) THEN "Ok"
    ELSE IF elapsed >= wait_duration THEN "EndOfStream"
    ELSE "continue"

\* One turn of the loop of wait_for_message_in_stdout / _in_stderr on a line
\* that next_line() returned `elapsed` after start_time.
compare_line(line, elapsed, message, wait_duration) ==
    IF Contains(line, message) THEN "Ok"
    ELSE IF elapsed >= wait_duration THEN "WaitDurationExpired"
    ELSE "continue"

\* What wait_for_message returns once next_line() has returned Ok(None).
after_last_line == "EndOfStream"

\* -------------------------------------------------------------- teardown
\* Mutant: the teardown run by Drop borrows the runtime again although a
\* block_on is in progress, and goes on to spawn its command.
teardown_reentrant(c, isBorrowed, env, canSpawn) ==
    IF c.tokio_runtime = None
    THEN [panic |-> Some("expect: tokio runtime hasn't initialized"), cmd |-> None]
    ELSE IF ~canSpawn
    THEN [panic |-> Some(IF keep_container(env)
                         THEN "failed to spawn docker stop command"
                         ELSE "failed to spawn docker rm command"),
          cmd |-> None]
    ELSE [panic |-> None,
          cmd |-> Some(IF keep_container(env) THEN stop_container(c.id)
                       ELSE rm_container(c.id))]

\* Drop::drop -> stop_blocking / rm_blocking: the command it spawns, or the
\* panic it ends with, for container `c` while the runtime's RefCell is
\* (isBorrowed) or is not mutably borrowed, and the docker binary can
\* (canSpawn) or cannot be started.
teardown(c, isBorrowed, env, canSpawn) ==
    IF c.tokio_runtime = None
    THEN [panic |-> Some("expect: tokio runtime hasn't initialized"), cmd |-> None]
    ELSE IF isBorrowed
    THEN [panic |-> Some("already borrowed: BorrowMutError"), cmd |-> None]
    ELSE IF ~canSpawn
    THEN [panic |-> Some(IF keep_container(env)
                         THEN "failed to spawn docker stop command"
                         ELSE "failed to spawn docker rm command"),
          cmd |-> None]
    ELSE [panic |-> None,
          cmd |-> Some(IF keep_container(env) THEN stop_container(c.id)
                       ELSE rm_container(c.id))]

\* The readiness wait's `docker logs -f` process once the container has
\* stopped running: following ends with the container.
logs_after_stop(proc) == IF proc = "running" THEN "exited" ELSE proc

\* The engine-side state of the container after teardown command `cmd`.
engine_after(cmd, state) ==
    IF cmd = None THEN state
    ELSE IF cmd[1].by = "rm_container" THEN "removed"
    ELSE "exited"

\* ------------------------------------------------------------ port table
EmptyPorts == [p \in {} |-> 0]

\* Mutant: an internal port that is already mapped keeps its first host port.
add_mapping_keep(mapping, internal, host) ==
    [p \in DOMAIN mapping \cup {internal} |->
        IF p \in DOMAIN mapping THEN mapping[p] ELSE host]

\* Ports::add_mapping: HashMap::insert.
add_mapping(mapping, internal, host) ==
    [p \in DOMAIN mapping \cup {internal} |->
        IF p = internal THEN host ELSE mapping[p]]

\* Ports::map_to_host_port: HashMap::get(..).cloned().
map_to_host_port(mapping, internal_port) ==
    IF internal_port \in DOMAIN mapping THEN Some(mapping[internal_port]) ELSE None

\* ----------------------------------------------------- inspection parser
\* InspectCommand::get_container_info: `docker inspect <id>`.
docker_inspect(id) ==
    [argv |-> <<"docker", "inspect", id>>, by |-> "get_container_info"]

\* char::to_digit(10).
to_digit(c) ==
    CASE c = "0" -> Some(0) [] c = "1" -> Some(1) [] c = "2" -> Some(2)
      [] c = "3" -> Some(3) [] c = "4" -> Some(4) [] c = "5" -> Some(5)
      [] c = "6" -> Some(6) [] c = "7" -> Some(7) [] c = "8" -> Some(8)
      [] c = "9" -> Some(9) [] OTHER -> None

\* u16::MAX.
U16_MAX == 65535

RECURSIVE parse_digits(_, _)
parse_digits(s, acc) ==
    IF s = <<>> THEN Some(acc)
    ELSE LET d == to_digit(Head(s))
             value == acc * 10 + d[1]
         IN IF d = None THEN None
            ELSE IF value > U16_MAX THEN None
            ELSE parse_digits(Tail(s), value)

\* <u16 as FromStr>::from_str, with .ok(): an optional "+", then one or more
\* decimal digits whose value fits 16 bits.
parse_u16(s) ==
    LET digits == IF s # <<>> /\ Head(s) = "+" THEN Tail(s) ELSE s
    IN IF digits = <<>> THEN None ELSE parse_digits(digits, 0)

\* Ports::parse_port: port.parse().unwrap_or_else(|e| panic!(..)).
parse_port(port) ==
    LET parsed == parse_u16(port)
    IN IF parsed = None
       THEN [panic |-> Some("Failed to parse as u16"), port |-> None]
       ELSE [panic |-> None, port |-> parsed]

\* internal.split('/').next().unwrap(): the text before the first '/'.
RECURSIVE split_next(_)
split_next(internal) ==
    IF internal = <<>> \/ Head(internal) = "/" THEN <<>>
    ELSE <<Head(internal)>> \o split_next(Tail(internal))

\* Mutant: a port entry with an empty binding list is mapped to host port 0.
external_port_default(external) ==
    IF external = None THEN None
    ELSE IF external[1] = <<>> THEN Some(<<"0">>)
    ELSE Some(external[1][Len(external[1])].port)

\* external.and_then(|mut m| m.pop()).map(|m| m.port): Vec::pop takes the
\* last element of the binding list.
external_port(external) ==
    IF external = None THEN None
    ELSE IF external[1] = <<>> THEN None
    ELSE Some(external[1][Len(external[1])].port)

\* Ports::into_ports, the loop over the entries of the HashMap taken in the
\* order `order`, from the table and panic state `acc`.
RECURSIVE into_ports_loop(_, _, _)
into_ports_loop(port_map, order, acc) ==
    IF order = <<>> \/ acc.panic # None THEN acc
    ELSE LET external == external_port(port_map[Head(order)])
         IN IF external = None
            THEN into_ports_loop(port_map, Tail(order), acc)
            ELSE LET internal == parse_port(split_next(Head(order)))
                     host == parse_port(external[1])
                 IN IF internal.panic # None
                    THEN [panic |-> internal.panic, ports |-> None]
                    ELSE IF host.panic # None
                    THEN [panic |-> host.panic, ports |-> None]
                    ELSE into_ports_loop(port_map, Tail(order),
                            [panic |-> None,
                             ports |-> Some(add_mapping(acc.ports[1],
                                                        internal.port[1],
                                                        host.port[1]))])

\* Ports::into_ports: starts from DockerPorts::default().
into_ports(port_map, order) ==
    into_ports_loop(port_map, order, [panic |-> None, ports |-> Some(EmptyPorts)])

\* InspectCommand::get_container_info on the output `resp` of the command:
\* serde_json::from_str(..).unwrap(), then infos.remove(0).
get_container_info(resp) ==
    IF ~resp.well_formed
    THEN [panic |-> Some("unwrap: serde_json error"), info |-> None]
    ELSE IF resp.infos = <<>>
    THEN [panic |-> Some("remove: index out of bounds"), info |-> None]
    ELSE [panic |-> None, info |-> Some(Head(resp.infos))]

\* Mutant: the ports are not read from the response of this call; the table
\* is that of a description without published ports.
get_container_ports_stale(resp) ==
    {[panic |-> None,
      info |-> Some(ContainerInfo(EngineId, <<>>)),
      ports |-> Some(EmptyPorts)]}

\* InspectCommand::get_container_ports: get_container_info(..).get_ports().
\* The outcomes it can have, one per iteration order of the HashMap.
get_container_ports(resp) ==
    LET fetched == get_container_info(resp)
    IN IF fetched.panic # None
       THEN {[panic |-> fetched.panic, info |-> None, ports |-> None]}
       ELSE {LET built == into_ports(fetched.info[1].network_settings.ports, o)
             IN [panic |-> built.panic, info |-> fetched.info, ports |-> built.ports] :
                o \in Orders(DOMAIN fetched.info[1].network_settings.ports)}

\* ------------------------------------------------------------ log access
\* const ONE_SECOND / ZERO, in the unit of the clock.
ONE_SECOND == 1
ZERO == 0

\* LogsCommand::print_stdout / print_stderr: `docker logs -f <id>`.
logs_print(id, stream_type) ==
    [argv |-> <<"docker", "logs", "-f", id>>,
     by |-> IF stream_type = "StdOut" THEN "print_stdout" ELSE "print_stderr"]

\* Container::time_since_container_was_started at instant t: the container's
\* own entry of startup_timestamps, written by register_container_started.
time_since_container_was_started(c, t) == Some(t - c.startup_timestamp)

\* Duration::checked_sub.
checked_sub(a, b) == IF a >= b THEN Some(a - b) ELSE None

\* Container::wait_at_least_one_second_after_container_was_started called at
\* instant t: the instant at which it returns.
wait_at_least_one_second_after_container_was_started(c, t) ==
    LET duration == time_since_container_was_started(c, t)
    IN IF duration # None /\ duration[1] < ONE_SECOND
       THEN t + (IF checked_sub(ONE_SECOND, duration[1]) = None THEN ZERO
                 ELSE checked_sub(ONE_SECOND, duration[1])[1])
       ELSE t

\* Mutant: run_background_logs runs the tails itself and returns once they
\* have finished.
Worker_joined(stdout, stderr) ==
    [stdout |-> stdout, stderr |-> stderr, state |-> "done",
     tail |-> [s \in StreamTypes |-> "none"],
     forwarded |-> [s \in StreamTypes |-> 0]]

\* std::thread::spawn(move || ..) of run_background_logs: the thread just
\* spawned, which has not started a tail and has forwarded no line.
Worker(stdout, stderr) ==
    [stdout |-> stdout, stderr |-> stderr, state |-> "spawned",
     tail |-> [s \in StreamTypes |-> "none"],
     forwarded |-> [s \in StreamTypes |-> 0]]

\* The worker was asked to tail stream s.
tails(w, s) == IF s = "StdOut" THEN w.stdout ELSE w.stderr

\* Mutant: the worker's block_on returns as soon as one tail has finished.
joined_any(w) == \E s \in StreamTypes : w.tail[s] = "ended"

\* The future the worker blocks on has completed: tokio::join! of both
\* tails, or the single tail awaited, i.e. every tail it started has
\* finished.
joined(w) == \A s \in StreamTypes : tails(w, s) => w.tail[s] = "ended"

\* Mutant: run_background_logs without its early return.
run_background_logs_always(c, stdout, stderr, t) ==
    [returns_at |-> wait_at_least_one_second_after_container_was_started(c, t),
     worker |-> Some(Worker(stdout, stderr))]

\* Container::run_background_logs called at instant t: when it returns and
\* the worker thread it has spawned, if any.
run_background_logs(c, stdout, stderr, t) ==
    IF ~stdout /\ ~stderr
    THEN [returns_at |-> t, worker |-> None]
    ELSE [returns_at |-> wait_at_least_one_second_after_container_was_started(c, t),
          worker |-> Some(Worker(stdout, stderr))]

\* ------------------------------------------------------------------ Init
NoOp == [op |-> "none"]

InspectIdle ==
    /\ response = [well_formed |-> TRUE, infos |-> <<>>]
    /\ inspections = <<>>

LogsIdle ==
    /\ workers = <<>>
    /\ logCalls = <<>>

PortsIdle ==
    /\ ports = EmptyPorts
    /\ lastAdd = NoOp
    /\ lastLookup = NoOp
    /\ registered = {}

LifecycleStart ==
    /\ pc = "start"
    /\ container = None
    /\ borrowed = FALSE
    /\ cmds = <<>>
    /\ engine = "absent"
    /\ containerLog = [s \in StreamTypes |-> <<>>]
    /\ streamFault = FALSE
    /\ now = 0
    /\ start_time = 0
    /\ number_of_compared_lines = 0
    /\ reads = <<>>
    /\ waitResult = None
    /\ result = None
    /\ panic = None
    /\ dropCount = 0
    /\ keepAtDrop = None
    /\ logsProc = "none"

Init ==
    /\ image \in {GenericImage("img", w) : w \in WaitForValues}
    /\ blocking \in BOOLEAN
    /\ binary \in BOOLEAN
    /\ KEEP_CONTAINERS \in EnvValues
    /\ LifecycleStart
    /\ PortsIdle
    /\ InspectIdle
    /\ LogsIdle

\* --------------------------------------------------------------- actions
TotalLines == Len(containerLog["StdOut"]) + Len(containerLog["StdErr"])

\* RunCommand::create_container(_blocking) up to the first suspension of
\* docker_run: the run command is spawned (`.expect` panics when the binary
\* cannot be started); the blocking variant holds the runtime's RefMut from
\* here until block_on returns.
DockerRun ==
    /\ pc = "start"
    /\ borrowed' = blocking
    /\ IF binary
       THEN /\ pc' = "docker_run"
            /\ \E env_order \in Orders(DOMAIN image.env_vars),
                  mount_orders \in MountOrders(image.mounts) :
                  cmds' = Append(cmds, docker_run(image, env_order, mount_orders))
            /\ engine' = "running"
            /\ UNCHANGED panic
       ELSE /\ pc' = "panicked"
            /\ panic' = Some("Failed to execute docker run command")
            /\ UNCHANGED <<cmds, engine>>
    /\ UNCHANGED <<image, blocking, KEEP_CONTAINERS, binary, container, containerLog,
                   streamFault, now, start_time, number_of_compared_lines, reads,
                   waitResult, result, dropCount, keepAtDrop, logsProc,
                   nonLifecycleVars>>

\* docker_run reads the identifier line; Container::new builds the container,
\* registers its start and runs block_until_ready to its first suspension:
\* with WaitFor::Nothing it returns Ok(container) at once, otherwise the logs
\* command is spawned and start_time taken; when that spawn fails `.expect`
\* panics, unwinding drops the container (Drop::drop), and its teardown
\* cannot spawn either. The container's tokio_runtime is
\* what the caller passes: None from create_container, Some(runtime) from
\* create_container_blocking.
ContainerNew ==
    /\ pc = "docker_run"
    /\ LET c == [id |-> EngineId,
                 startup_timestamp |-> now,
                 tokio_runtime |-> IF blocking THEN Some("rt") ELSE None]
           watch == readiness_stream(image.wait_for)
       IN /\ container' = Some(c)
          /\ IF watch = None
             THEN /\ pc' = "held"
                  /\ result' = Some("Ok")
                  /\ borrowed' = FALSE
                  /\ UNCHANGED <<cmds, start_time, logsProc, panic, dropCount,
                                 keepAtDrop>>
             ELSE IF binary
             THEN /\ pc' = "waiting"
                  /\ cmds' = Append(cmds, logs_follow(c.id, watch[1]))
                  /\ logsProc' = IF engine = "running" THEN "running" ELSE "exited"
                  /\ start_time' = now
                  /\ UNCHANGED <<result, borrowed, panic, dropCount, keepAtDrop>>
             ELSE /\ pc' = "panicked"
                  /\ panic' = Some("failed to spawn docker logs command")
                  /\ dropCount' = dropCount + 1
                  /\ keepAtDrop' = Some(KEEP_CONTAINERS)
                  /\ UNCHANGED <<cmds, start_time, logsProc, result, borrowed>>
    /\ UNCHANGED <<image, blocking, KEEP_CONTAINERS, binary, engine, containerLog,
                   streamFault, now, number_of_compared_lines, reads, waitResult,
                   nonLifecycleVars>>

\* wait_for_message returned Err(e) to block_until_ready: `?` in Container::new
\* returns it, dropping the container on the way out (Drop::drop); when the
\* drop does not panic, create_container returns Err(e).
FailReadiness(e) ==
    LET td == teardown(container[1], borrowed, KEEP_CONTAINERS, binary)
    IN /\ waitResult' = Some(e)
       /\ dropCount' = dropCount + 1
       /\ keepAtDrop' = Some(KEEP_CONTAINERS)
       /\ panic' = td.panic
       /\ cmds' = IF td.cmd = None THEN cmds ELSE Append(cmds, td.cmd[1])
       /\ engine' = engine_after(td.cmd, engine)
       /\ logsProc' = IF td.cmd = None THEN logsProc ELSE logs_after_stop(logsProc)
       /\ IF td.panic = None
          THEN pc' = "failed" /\ result' = Some(e) /\ borrowed' = FALSE
          ELSE pc' = "panicked" /\ UNCHANGED <<result, borrowed>>

\* next_line() returns Ok(Some(line)): one turn of the loop.
ReadLine ==
    /\ pc = "waiting"
    /\ ~streamFault
    /\ LET wf == image.wait_for
           log == followed_lines(containerLog[wf.stream_type])
           elapsed == now - start_time
       IN /\ number_of_compared_lines < Len(log)
          /\ LET line == log[number_of_compared_lines + 1]
                 out == compare_line(line, elapsed, wf.message, wf.wait_duration)
             IN /\ number_of_compared_lines' = number_of_compared_lines + 1
                /\ reads' = Append(reads, [kind |-> "line", line |-> line,
                                           stream |-> wf.stream_type, at |-> elapsed])
                /\ CASE out = "continue" ->
                          UNCHANGED <<pc, waitResult, result, borrowed, panic, cmds,
                                      engine, dropCount, keepAtDrop, logsProc>>
                     [] out = "Ok" ->
                          /\ waitResult' = Some("Ok")
                          /\ pc' = "held"
                          /\ result' = Some("Ok")
                          /\ borrowed' = FALSE
                          /\ UNCHANGED <<panic, cmds, engine, dropCount, keepAtDrop,
                                         logsProc>>
                     [] OTHER -> FailReadiness(out)
    /\ UNCHANGED <<image, blocking, KEEP_CONTAINERS, binary, container, containerLog,
                   streamFault, now, start_time, nonLifecycleVars>>

\* next_line() returns Ok(None): the log stream has ended.
ReadEof ==
    /\ pc = "waiting"
    /\ ~streamFault
    /\ engine # "running"
    /\ number_of_compared_lines =
          Len(followed_lines(containerLog[image.wait_for.stream_type]))
    /\ reads' = Append(reads, [kind |-> "eof", line |-> <<>>,
                               stream |-> image.wait_for.stream_type,
                               at |-> now - start_time])
    /\ FailReadiness(after_last_line)
    /\ UNCHANGED <<image, blocking, KEEP_CONTAINERS, binary, container, containerLog,
                   streamFault, now, start_time, number_of_compared_lines, nonLifecycleVars>>

\* next_line() returns Err(io error): `.unwrap()` panics. Unwinding drops the
\* container of Container::new, whose Drop::drop runs as well.
ReadFault ==
    /\ pc = "waiting"
    /\ streamFault
    /\ pc' = "panicked"
    /\ panic' = Some("unwrap: io error")
    /\ reads' = Append(reads, [kind |-> "fault", line |-> <<>>,
                               stream |-> image.wait_for.stream_type,
                               at |-> now - start_time])
    /\ LET td == teardown(container[1], borrowed, KEEP_CONTAINERS, binary)
       IN /\ dropCount' = dropCount + 1
          /\ keepAtDrop' = Some(KEEP_CONTAINERS)
          /\ cmds' = IF td.cmd = None THEN cmds ELSE Append(cmds, td.cmd[1])
          /\ engine' = engine_after(td.cmd, engine)
          /\ logsProc' = IF td.cmd = None THEN logsProc ELSE logs_after_stop(logsProc)
    /\ UNCHANGED <<image, blocking, KEEP_CONTAINERS, binary, container, borrowed,
                   containerLog, streamFault, now, start_time,
                   number_of_compared_lines, waitResult, result, nonLifecycleVars>>

\* The caller's handle goes out of scope: Drop::drop.
DropHandle ==
    /\ pc = "held"
    /\ LET td == teardown(container[1], borrowed, KEEP_CONTAINERS, binary)
       IN /\ dropCount' = dropCount + 1
          /\ keepAtDrop' = Some(KEEP_CONTAINERS)
          /\ panic' = td.panic
          /\ cmds' = IF td.cmd = None THEN cmds ELSE Append(cmds, td.cmd[1])
          /\ engine' = engine_after(td.cmd, engine)
          /\ logsProc' = IF td.cmd = None THEN logsProc ELSE logs_after_stop(logsProc)
          /\ pc' = IF td.panic = None THEN "dropped" ELSE "panicked"
    /\ UNCHANGED <<image, blocking, KEEP_CONTAINERS, binary, container, borrowed,
                   containerLog, streamFault, now, start_time,
                   number_of_compared_lines, reads, waitResult, result, nonLifecycleVars>>

\* ----------------------------------------------------------- environment
\* The container writes a line to one of its streams while creation is under
\* way; what it writes after creation has ended is read by no command here.
Emit(s, line) ==
    /\ engine = "running"
    /\ pc \in {"docker_run", "waiting"}
    /\ TotalLines < MaxLines
    /\ containerLog' = [containerLog EXCEPT ![s] = Append(@, line)]
    /\ UNCHANGED <<image, blocking, KEEP_CONTAINERS, binary, pc, container, borrowed, cmds,
                   engine, streamFault, now, start_time, number_of_compared_lines,
                   reads, waitResult, result, panic, dropCount, keepAtDrop, logsProc,
                   nonLifecycleVars>>

\* The container's process exits on its own; its log streams end.
ContainerExit ==
    /\ engine = "running"
    /\ engine' = "exited"
    /\ logsProc' = logs_after_stop(logsProc)
    /\ UNCHANGED <<image, blocking, KEEP_CONTAINERS, binary, pc, container, borrowed, cmds,
                   containerLog, streamFault, now, start_time,
                   number_of_compared_lines, reads, waitResult, result, panic,
                   dropCount, keepAtDrop, nonLifecycleVars>>

\* The pipe of the logs command breaks: its next read reports an I/O fault.
Fault ==
    /\ pc = "waiting"
    /\ ~streamFault
    /\ streamFault' = TRUE
    /\ UNCHANGED <<image, blocking, KEEP_CONTAINERS, binary, logsProc, pc, container, borrowed, cmds,
                   engine, containerLog, now, start_time, number_of_compared_lines,
                   reads, waitResult, result, panic, dropCount, keepAtDrop, nonLifecycleVars>>

\* Time passes while the caller is suspended in docker_run or in next_line().
Tick ==
    /\ pc \in {"docker_run", "waiting"}
    /\ now < MaxTime
    /\ now' = now + 1
    /\ UNCHANGED <<image, blocking, KEEP_CONTAINERS, binary, logsProc, pc, container, borrowed, cmds,
                   engine, containerLog, streamFault, start_time,
                   number_of_compared_lines, reads, waitResult, result, panic,
                   dropCount, keepAtDrop, nonLifecycleVars>>

\* The caller changes KEEP_CONTAINERS while it holds the handle.
SetEnv(v) ==
    /\ pc = "held"
    /\ v # KEEP_CONTAINERS
    /\ KEEP_CONTAINERS' = v
    /\ UNCHANGED <<image, blocking, binary, logsProc, pc, container, borrowed, cmds, engine,
                   containerLog, streamFault, now, start_time,
                   number_of_compared_lines, reads, waitResult, result, panic,
                   dropCount, keepAtDrop, nonLifecycleVars>>

\* The docker binary stops being startable (removed, permissions changed)
\* once the container runs: every later spawn of the handle fails.
BinaryLost ==
    /\ pc = "docker_run"
    /\ binary
    /\ binary' = FALSE
    /\ UNCHANGED <<image, blocking, KEEP_CONTAINERS, logsProc, pc, container,
                   borrowed, cmds, engine, containerLog, streamFault, now,
                   start_time, number_of_compared_lines, reads, waitResult, result,
                   panic, dropCount, keepAtDrop, nonLifecycleVars>>

Next ==
    \/ DockerRun
    \/ ContainerNew
    \/ ReadLine
    \/ ReadEof
    \/ ReadFault
    \/ DropHandle
    \/ \E s \in StreamTypes, line \in Lines : Emit(s, line)
    \/ ContainerExit
    \/ Fault
    \/ Tick
    \/ \E v \in EnvValues : SetEnv(v)
    \/ BinaryLost

Spec == Init /\ [][Next]_vars

\* ------------------------------------------------- the run command
\* Creation of a container from an image with environment variables, mounts,
\* a network and arguments, by create_container_blocking.
RunArgsInit ==
    /\ image \in RunImages
    /\ blocking = TRUE
    /\ binary = TRUE
    /\ KEEP_CONTAINERS = None
    /\ LifecycleStart
    /\ PortsIdle
    /\ InspectIdle
    /\ LogsIdle

RunArgsNext ==
    \/ DockerRun
    \/ ContainerNew
    \/ DropHandle

RunArgsSpec == RunArgsInit /\ [][RunArgsNext]_vars

\* ------------------------------------- output written before the wait
\* The sequences of at most n log lines.
LogsUpTo(n) == UNION {[1..k -> Lines] : k \in 0..n}

\* The state in which docker_run has spawned the run command and the
\* container has already written the marker of the image's readiness
\* specification (and has perhaps exited), before Container::new spawns the
\* logs command of the wait.
ReplayInit ==
    /\ image \in {GenericImage("img", w) : w \in WaitForValues \ {[kind |-> "Nothing"]}}
    /\ blocking \in BOOLEAN
    /\ binary = TRUE
    /\ KEEP_CONTAINERS = None
    /\ pc = "docker_run"
    /\ container = None
    /\ borrowed = blocking
    /\ cmds = <<docker_run(image, <<>>, <<>>)>>
    /\ engine \in {"running", "exited"}
    /\ containerLog \in [StreamTypes -> LogsUpTo(MaxLines)]
    /\ TotalLines <= MaxLines
    /\ \E i \in 1..Len(containerLog[image.wait_for.stream_type]) :
          Contains(containerLog[image.wait_for.stream_type][i],
                   image.wait_for.message)
    /\ streamFault = FALSE
    /\ now = 0
    /\ start_time = 0
    /\ number_of_compared_lines = 0
    /\ reads = <<>>
    /\ waitResult = None
    /\ result = None
    /\ panic = None
    /\ dropCount = 0
    /\ keepAtDrop = None
    /\ logsProc = "none"
    /\ PortsIdle
    /\ InspectIdle
    /\ LogsIdle

\* The marker line is in the stream from the start, so the wait returns at
\* that line at the latest and next_line() never gets to return Ok(None).
ReplayNext ==
    \/ ContainerNew
    \/ ReadLine
    \/ ReadFault
    \/ \E s \in StreamTypes, line \in Lines : Emit(s, line)
    \/ ContainerExit
    \/ Fault
    \/ Tick

ReplaySpec == ReplayInit /\ [][ReplayNext]_vars

\* --------------------------------------------------- port table, alone
LifecycleIdle ==
    /\ image = GenericImage("img", [kind |-> "Nothing"])
    /\ blocking = FALSE
    /\ binary = TRUE
    /\ KEEP_CONTAINERS = None
    /\ LifecycleStart

\* Any port table a sequence of add_mapping calls can have built.
PortInit ==
    /\ LifecycleIdle
    /\ \E keys \in SUBSET PortNumbers :
          /\ ports \in [keys -> PortNumbers]
          /\ registered = keys
    /\ lastAdd = NoOp
    /\ lastLookup = NoOp
    /\ InspectIdle
    /\ LogsIdle

AddMapping(internal, host) ==
    /\ ports' = add_mapping(ports, internal, host)
    /\ registered' = registered \cup {internal}
    /\ lastAdd' = [op |-> "add_mapping", internal |-> internal, host |-> host,
                   before |-> ports]
    /\ UNCHANGED <<lastLookup, lifecycleVars, inspectVars, logVars>>

MapToHostPort(internal_port) ==
    /\ lastLookup' = [op |-> "map_to_host_port", internal |-> internal_port,
                      before |-> ports, registered |-> registered,
                      added |-> lastAdd,
                      returned |-> map_to_host_port(ports, internal_port)]
    /\ UNCHANGED <<ports, registered, lastAdd, lifecycleVars, inspectVars, logVars>>

PortNext ==
    \/ \E internal \in PortNumbers, host \in PortNumbers : AddMapping(internal, host)
    \/ \E internal_port \in PortNumbers : MapToHostPort(internal_port)

PortSpec == PortInit /\ [][PortNext]_vars

\* ------------------------------------------------ port lookup on a handle
\* The state in which create_container(_blocking) has returned the handle of
\* an image that waits for nothing.
HeldHandle ==
    /\ image = GenericImage("img", [kind |-> "Nothing"])
    /\ blocking \in BOOLEAN
    /\ KEEP_CONTAINERS = None
    /\ pc = "held"
    /\ container = Some([id |-> EngineId,
                         startup_timestamp |-> 0,
                         tokio_runtime |-> IF blocking THEN Some("rt") ELSE None])
    /\ borrowed = FALSE
    /\ cmds = <<docker_run(image, <<>>, <<>>)>>
    /\ engine = "running"
    /\ containerLog = [s \in StreamTypes |-> <<>>]
    /\ streamFault = FALSE
    /\ start_time = 0
    /\ number_of_compared_lines = 0
    /\ reads = <<>>
    /\ waitResult = None
    /\ result = Some("Ok")
    /\ panic = None
    /\ dropCount = 0
    /\ keepAtDrop = None
    /\ binary \in BOOLEAN
    /\ logsProc = "none"

InspectInit ==
    /\ HeldHandle
    /\ now = 0
    /\ PortsIdle
    /\ LogsIdle
    /\ response \in Responses
    /\ inspections = <<>>

\* Container::get_host_port (handle without runtime) or
\* Container::get_host_port_blocking (handle with runtime): one inspect
\* command (`.expect` panics when the binary cannot be started), its output
\* parsed, the table built and looked up.
GetHostPort(internal_port) ==
    /\ pc = "held"
    /\ Len(inspections) < MaxCalls
    /\ \E out \in IF binary THEN get_container_ports(response)
                   ELSE {[panic |-> Some("failed to spawn docker inspect command"),
                          info |-> None, ports |-> None]} :
          /\ cmds' = IF binary THEN Append(cmds, docker_inspect(container[1].id))
                     ELSE cmds
          /\ inspections' =
                Append(inspections,
                       [internal_port |-> internal_port,
                        response |-> response,
                        info |-> out.info,
                        ports |-> out.ports,
                        panic |-> out.panic,
                        returned |-> IF out.panic # None THEN None
                                     ELSE Some(map_to_host_port(out.ports[1],
                                                                internal_port))])
          /\ panic' = out.panic
          /\ pc' = IF out.panic = None THEN "held" ELSE "panicked"
    /\ UNCHANGED <<image, blocking, KEEP_CONTAINERS, binary, container, borrowed, engine,
                   containerLog, streamFault, now, start_time,
                   number_of_compared_lines, reads, waitResult, result,
                   dropCount, keepAtDrop, logsProc, portVars, logVars, response>>

\* The engine finishes publishing a port of the running container: an entry
\* without a binding gets one. InspectInit draws every response, so only a
\* change between two calls adds behaviour.
Publish(key, host_port) ==
    /\ engine = "running"
    /\ 0 < Len(inspections)
    /\ Len(inspections) < MaxCalls
    /\ response.well_formed
    /\ response.infos # <<>>
    /\ key \in DOMAIN response.infos[1].network_settings.ports
    /\ external_port(response.infos[1].network_settings.ports[key]) = None
    /\ response' =
          [response EXCEPT !.infos[1].network_settings.ports[key] =
                              Some(<<PortMapping(host_port)>>)]
    /\ UNCHANGED <<lifecycleVars, portVars, logVars, inspections>>

InspectNext ==
    \/ \E internal_port \in InternalPorts : GetHostPort(internal_port)
    \/ \E key \in InternalKeys, host_port \in EphemeralPorts : Publish(key, host_port)

InspectSpec == InspectInit /\ [][InspectNext]_vars

\* -------------------------------------------------- log access on a handle
LogsInit ==
    /\ HeldHandle
    /\ now \in 0..MaxTime
    /\ PortsIdle
    /\ InspectIdle
    /\ LogsIdle

\* What a log-access call can change.
Snapshot(c, k, w, p) == [container |-> c, cmds |-> k, workers |-> w, panic |-> p]

\* Container::run_background_logs(stdout, stderr).
RunBackgroundLogs(stdout, stderr) ==
    /\ pc = "held"
    /\ Len(logCalls) < MaxCalls
    /\ LET out == run_background_logs(container[1], stdout, stderr, now)
           spawned == IF out.worker = None THEN workers
                      ELSE Append(workers, out.worker[1])
       IN /\ now' = out.returns_at
          /\ workers' = spawned
          /\ logCalls' = Append(logCalls,
                [op |-> "run_background_logs", stdout |-> stdout, stderr |-> stderr,
                 at |-> now, returned_at |-> out.returns_at, returned |-> TRUE,
                 before |-> Snapshot(container, cmds, workers, panic),
                 after |-> Snapshot(container, cmds, spawned, panic)])
    /\ UNCHANGED <<image, blocking, KEEP_CONTAINERS, binary, logsProc, pc, container,
                   borrowed, cmds, engine, containerLog, streamFault, start_time,
                   number_of_compared_lines, reads, waitResult, result, panic,
                   dropCount, keepAtDrop, portVars, inspectVars>>

\* The worker thread of run_background_logs starts: print_stdout and / or
\* print_stderr spawn their logs command (tokio::join! polls stdout first);
\* `.expect` panics the thread when the binary cannot be started.
WorkerRun(i) ==
    /\ i \in 1..Len(workers)
    /\ workers[i].state = "spawned"
    /\ workers' = [workers EXCEPT
                      ![i].state = IF binary THEN "tailing" ELSE "panicked",
                      ![i].tail = [s \in StreamTypes |->
                                     IF binary /\ tails(workers[i], s)
                                     THEN "reading" ELSE "none"]]
    /\ cmds' = IF ~binary THEN cmds
               ELSE cmds \o (IF workers[i].stdout
                             THEN <<logs_print(container[1].id, "StdOut")>> ELSE <<>>)
                         \o (IF workers[i].stderr
                             THEN <<logs_print(container[1].id, "StdErr")>> ELSE <<>>)
    /\ UNCHANGED <<image, blocking, KEEP_CONTAINERS, binary, logsProc, pc, container,
                   borrowed, engine, containerLog, streamFault, now, start_time,
                   number_of_compared_lines, reads, waitResult, result, panic,
                   dropCount, keepAtDrop, portVars, inspectVars, logCalls>>

\* Container::print_stdout / print_stderr up to its suspension in
\* next_line(): the grace period, then the logs command is spawned.
PrintStream(stream_type) ==
    /\ pc = "held"
    /\ Len(logCalls) < MaxCalls
    /\ LET opened_at == wait_at_least_one_second_after_container_was_started(
                            container[1], now)
           spawned == IF binary
                      THEN Append(cmds, logs_print(container[1].id, stream_type))
                      ELSE cmds
           failure == IF binary THEN panic
                      ELSE Some("failed to spawn docker logs command")
       IN /\ now' = opened_at
          /\ cmds' = spawned
          /\ panic' = failure
          /\ pc' = IF binary THEN "printing" ELSE "panicked"
          /\ logCalls' = Append(logCalls,
                [op |-> logs_print(container[1].id, stream_type).by,
                 stdout |-> stream_type = "StdOut", stderr |-> stream_type = "StdErr",
                 at |-> now, returned_at |-> opened_at, returned |-> FALSE,
                 before |-> Snapshot(container, cmds, workers, panic),
                 after |-> Snapshot(container, spawned, workers, failure)])
    /\ UNCHANGED <<image, blocking, KEEP_CONTAINERS, binary, logsProc, container,
                   borrowed, engine, containerLog, streamFault, start_time,
                   number_of_compared_lines, reads, waitResult, result,
                   dropCount, keepAtDrop, portVars, inspectVars, workers>>

\* print_stdout / print_stderr returns: next_line() gave Ok(None), the
\* followed stream has ended.
PrintReturn ==
    /\ pc = "printing"
    /\ engine # "running"
    /\ pc' = "held"
    /\ logCalls' = [logCalls EXCEPT ![Len(logCalls)].returned = TRUE]
    /\ UNCHANGED <<image, blocking, KEEP_CONTAINERS, binary, logsProc, container,
                   borrowed, cmds, engine, containerLog, streamFault, now, start_time,
                   number_of_compared_lines, reads, waitResult, result, panic,
                   dropCount, keepAtDrop, portVars, inspectVars, workers>>

LogsNext ==
    \/ \E stdout \in BOOLEAN, stderr \in BOOLEAN : RunBackgroundLogs(stdout, stderr)
    \/ \E i \in 1..MaxCalls : WorkerRun(i)
    \/ \E stream_type \in StreamTypes : PrintStream(stream_type)
    \/ PrintReturn
    \/ ContainerExit

LogsSpec == LogsInit /\ [][LogsNext]_vars

\* ------------------------------------------------- background tailing
\* The other stream of the container.
other_stream(s) == IF s = "StdOut" THEN "StdErr" ELSE "StdOut"

\* The container writes a line to one of its streams while the caller holds
\* the handle.
Write(s) ==
    /\ engine = "running"
    /\ pc \in {"held", "printing"}
    /\ TotalLines < MaxOutput
    /\ containerLog' = [containerLog EXCEPT ![s] = Append(@, <<"a">>)]
    /\ UNCHANGED <<image, blocking, KEEP_CONTAINERS, binary, logsProc, pc, container,
                   borrowed, cmds, engine, streamFault, now, start_time,
                   number_of_compared_lines, reads, waitResult, result, panic,
                   dropCount, keepAtDrop, nonLifecycleVars>>

\* print_stdout / print_stderr in worker i: next_line() returns
\* Ok(Some(line)) and the line is logged.
TailLine(i, s) ==
    /\ i \in 1..Len(workers)
    /\ workers[i].tail[s] = "reading"
    /\ workers[i].forwarded[s] < Len(followed_lines(containerLog[s]))
    /\ workers' = [workers EXCEPT ![i].forwarded[s] = @ + 1]
    /\ UNCHANGED <<lifecycleVars, portVars, inspectVars, logCalls>>

\* print_stdout / print_stderr in worker i: next_line() returns Ok(None),
\* the loop ends; the thread ends when the future it blocks on is complete.
TailEof(i, s) ==
    /\ i \in 1..Len(workers)
    /\ workers[i].tail[s] = "reading"
    /\ engine # "running"
    /\ workers[i].forwarded[s] = Len(followed_lines(containerLog[s]))
    /\ LET w == [workers[i] EXCEPT !.tail[s] = "ended"]
       IN workers' = [workers EXCEPT
                         ![i] = [w EXCEPT !.state = IF joined(w) THEN "done"
                                                   ELSE "tailing"]]
    /\ UNCHANGED <<lifecycleVars, portVars, inspectVars, logCalls>>

\* The logs command of the tail of stream s in worker i was given a pipe for
\* both of its output streams (.stdout(Stdio::piped()).stderr(Stdio::piped()))
\* and the tail reads only that of s: once the container's output on the
\* other stream is more than the unread pipe holds, the command blocks
\* writing to it and delivers nothing further.
TailStall(i, s) ==
    /\ i \in 1..Len(workers)
    /\ workers[i].tail[s] = "reading"
    /\ Len(containerLog[other_stream(s)]) > PipeLines
    /\ workers' = [workers EXCEPT ![i].tail[s] = "stalled"]
    /\ UNCHANGED <<lifecycleVars, portVars, inspectVars, logCalls>>

\* A held handle, within its first second or just after it.
TailInit ==
    /\ HeldHandle
    /\ now \in {ZERO, ONE_SECOND}
    /\ PortsIdle
    /\ InspectIdle
    /\ LogsIdle

\* One run_background_logs call on a held handle, its worker, the container
\* and the caller going on concurrently.
TailNext ==
    \/ \E stdout \in BOOLEAN, stderr \in BOOLEAN :
          workers = <<>> /\ RunBackgroundLogs(stdout, stderr)
    \/ \E i \in 1..MaxCalls : WorkerRun(i)
    \/ \E i \in 1..MaxCalls, s \in StreamTypes : TailLine(i, s)
    \/ \E i \in 1..MaxCalls, s \in StreamTypes : TailEof(i, s)
    \/ \E i \in 1..MaxCalls, s \in StreamTypes : TailStall(i, s)
    \/ \E s \in StreamTypes : Write(s)
    \/ \E stream_type \in StreamTypes : PrintStream(stream_type)
    \/ PrintReturn
    \/ ContainerExit
    \/ DropHandle

TailSpec == TailInit /\ [][TailNext]_vars

\* ================================================================ claims
WaitCommands ==
    SelectSeq(cmds, LAMBDA c : c.by \in {"wait_for_message_in_stdout",
                                         "wait_for_message_in_stderr"})
Teardowns ==
    SelectSeq(cmds, LAMBDA c : c.by \in {"rm_container", "stop_container"})

\* The marker of the image's readiness specification has appeared on the
\* stream that specification names.
MarkerInLog ==
    LET wf == image.wait_for
    IN \E i \in 1..Len(containerLog[wf.stream_type]) :
          Contains(containerLog[wf.stream_type][i], wf.message)

\* C1: the readiness wait starts only after the identifier has been captured
\* from the run command (its logs command follows the run command and names
\* the captured identifier), no handle is returned while the wait is running,
\* and a returned handle's readiness specification is satisfied.
C1_ReadyBeforeReturn ==
    /\ \A i \in 1..Len(cmds) :
          cmds[i].by \in {"wait_for_message_in_stdout", "wait_for_message_in_stderr"}
          => /\ i > 1
             /\ cmds[1].by = "docker_run"
             /\ container # None
             /\ cmds[i].argv[4] = container[1].id
    /\ pc = "waiting" => result = None
    /\ pc \in {"held", "dropped"} => result = Some("Ok")
    /\ result = Some("Ok") =>
          \/ image.wait_for.kind = "Nothing"
          \/ waitResult = Some("Ok") /\ MarkerInLog

C1_Witness ==
    /\ pc = "held"
    /\ image.wait_for.kind = "LogMessage"
    /\ waitResult = Some("Ok")
    /\ Len(reads) = 2

\* C2: wait_for_message succeeds if and only if some line read before the
\* deadline elapsed contains the marker.
C2_SucceedsIffMarkerBeforeDeadline ==
    waitResult # None =>
        (waitResult = Some("Ok") <=>
            \E i \in 1..Len(reads) :
                /\ reads[i].kind = "line"
                /\ reads[i].at < image.wait_for.wait_duration
                /\ Contains(reads[i].line, image.wait_for.message))

\* C3: wait_for_message fails with WaitDurationExpired if and only if one of
\* its reads was still blocked when the deadline elapsed.
C3_ExpiredIffReadOverran ==
    waitResult # None =>
        (waitResult = Some("WaitDurationExpired") <=>
            \E i \in 1..Len(reads) : reads[i].at >= image.wait_for.wait_duration)

\* C4: a call of wait_for_message has returned once its deadline has elapsed,
\* also when the stream stays open and delivers nothing: it is never still
\* suspended in a read of a silent, open stream after wait_duration.
C4_ReturnedOnceDeadlineElapsed ==
    (/\ pc = "waiting"
     /\ engine = "running"
     /\ ~streamFault
     /\ number_of_compared_lines = Len(containerLog[image.wait_for.stream_type]))
    => now - start_time <= image.wait_for.wait_duration

\* C5: wait_for_message fails with EndOfStream if and only if the stream has
\* ended, the wait has read it to its end, and no line of it contains the
\* marker.
C5_EndOfStreamIff ==
    LET wf == image.wait_for
    IN (waitResult = Some("EndOfStream")) <=>
          /\ wf.kind = "LogMessage"
          /\ engine # "running"
          /\ reads # <<>>
          /\ reads[Len(reads)].kind = "eof"
          /\ number_of_compared_lines = Len(containerLog[wf.stream_type])
          /\ ~MarkerInLog

C5_Witness ==
    /\ waitResult = Some("EndOfStream")
    /\ number_of_compared_lines = 2

\* C6: teardown (stop or rm) is issued exactly once for a handle that has been
\* disposed of, and never twice.
C6_TeardownExactlyOnce ==
    /\ Len(Teardowns) <= 1
    /\ dropCount > 0 => Len(Teardowns) = 1

\* C7: on disposal exactly one teardown verb is issued: stop when
\* KEEP_CONTAINERS is "true" at that time, rm -f -v otherwise.
C7_VerbByKeepContainers ==
    dropCount > 0 =>
        Teardowns = <<IF keepAtDrop = Some(Some("true"))
                      THEN stop_container(container[1].id)
                      ELSE rm_container(container[1].id)>>

\* C8: when the readiness wait fails, creation returns that same error to its
\* caller: no panic, no handle, no second wait.
C8_ReadinessErrorReturned ==
    waitResult \in {Some("EndOfStream"), Some("WaitDurationExpired"), Some("Io")} =>
        /\ result = waitResult
        /\ panic = None
        /\ Len(WaitCommands) = 1

\* C9: for an image whose readiness specification is Nothing, creation has
\* succeeded as soon as the identifier is captured, without a logs command
\* and without a line read.
C9_NothingReadyAtOnce ==
    image.wait_for.kind = "Nothing" =>
        /\ container # None => result = Some("Ok")
        /\ pc # "waiting"
        /\ WaitCommands = <<>>
        /\ reads = <<>>

C9_Witness ==
    /\ image.wait_for.kind = "Nothing"
    /\ pc = "held"
    /\ containerLog["StdOut"] # <<>>

\* C10: after add_mapping(internal, host) a lookup of internal returns host;
\* a lookup of a port never registered returns None; a lookup leaves the
\* table as it was (its keys stay the registered ports).
C10_PortLookup ==
    /\ lastAdd # NoOp =>
          map_to_host_port(ports, lastAdd.internal) = Some(lastAdd.host)
    /\ lastLookup # NoOp =>
          /\ lastLookup.internal \notin lastLookup.registered
                => lastLookup.returned = None
          /\ (lastLookup.added # NoOp /\ lastLookup.added.internal = lastLookup.internal)
                => lastLookup.returned = Some(lastLookup.added.host)
          /\ lastLookup.before \in [lastLookup.registered -> PortNumbers]
    /\ DOMAIN ports = registered

C10_Witness ==
    /\ lastAdd # NoOp
    /\ lastAdd.internal \in DOMAIN lastAdd.before
    /\ lastAdd.before[lastAdd.internal] # lastAdd.host
    /\ lastLookup # NoOp
    /\ lastLookup.internal \notin lastLookup.registered
    /\ lastLookup.before # EmptyPorts

\* ------------------------------------------------- inspection, claims
\* The port number an inspect key names, and the number a HostPort value
\* stands for (-1: not a number), read off the strings themselves.
KeyNumber(key) ==
    CASE key = <<"5", "4", "3", "2", "/", "t", "c", "p">> -> 5432
      [] key = <<"5", "4", "3", "2", "/", "u", "d", "p">> -> 5432
      [] key = <<"5", "4", "3", "3", "/", "t", "c", "p">> -> 5433

HostNumber(host_port) ==
    CASE host_port = <<"4", "9", "1", "5", "5">> -> 49155
      [] host_port = <<"4", "9", "1", "5", "6">> -> 49156
      [] OTHER -> -1

\* Entry `key` of the description's port map has at least one host binding.
HasBinding(port_map, key) ==
    /\ key \in DOMAIN port_map
    /\ port_map[key] # None
    /\ port_map[key][1] # <<>>

BoundKeys(port_map) == {key \in DOMAIN port_map : HasBinding(port_map, key)}

\* The host numbers of all bindings the description lists for port `number`.
BindingsOf(port_map, number) ==
    UNION {{HostNumber(port_map[key][1][j].port) : j \in 1..Len(port_map[key][1])} :
             key \in {k \in BoundKeys(port_map) : KeyNumber(k) = number}}

\* C11: the table get_ports builds from a description has an entry for an
\* internal port exactly when some entry of that port has at least one host
\* binding; entries whose binding list is null or empty are omitted without
\* a panic, and every value of the table is the host port of a binding the
\* description lists for that port.
C11_EntryIffBound ==
    \A i \in 1..Len(inspections) :
        LET call == inspections[i]
        IN call.info # None =>
              LET port_map == call.info[1].network_settings.ports
              IN /\ (\A number \in {5432, 5433} : -1 \notin BindingsOf(port_map, number))
                       => call.panic = None
                 /\ call.ports # None =>
                       /\ DOMAIN call.ports[1] =
                             {KeyNumber(key) : key \in BoundKeys(port_map)}
                       /\ \A number \in DOMAIN call.ports[1] :
                             call.ports[1][number] \in BindingsOf(port_map, number)

\* Scenario B: 5432/tcp bound to 49155 and 5433/tcp without a binding.
C11_Witness ==
    \E i \in 1..Len(inspections) :
        /\ inspections[i].info # None
        /\ inspections[i].info[1].network_settings.ports =
              [key \in {<<"5", "4", "3", "2", "/", "t", "c", "p">>,
                        <<"5", "4", "3", "3", "/", "t", "c", "p">>} |->
                 IF key = <<"5", "4", "3", "2", "/", "t", "c", "p">>
                 THEN Some(<<PortMapping(<<"4", "9", "1", "5", "5">>)>>)
                 ELSE None]
        /\ inspections[i].ports = Some([number \in {5432} |-> 49155])
        /\ inspections[i].internal_port = 5433
        /\ inspections[i].returned = Some(None)

\* C12: when the only bound entry of an internal port lists two or more host
\* bindings, the table records the first of them.
C12_FirstBindingRecorded ==
    \A i \in 1..Len(inspections) :
        LET call == inspections[i]
        IN call.ports # None =>
              LET port_map == call.info[1].network_settings.ports
              IN \A key \in BoundKeys(port_map) :
                    (/\ Len(port_map[key][1]) >= 2
                     /\ \A other \in BoundKeys(port_map) :
                           KeyNumber(other) = KeyNumber(key) => other = key)
                    => call.ports[1][KeyNumber(key)] =
                          HostNumber(port_map[key][1][1].port)

\* C13: a ContainerInfo is produced only from a response that holds exactly
\* one container description.
C13_ExactlyOneDescription ==
    \A i \in 1..Len(inspections) :
        inspections[i].info # None =>
            /\ inspections[i].response.well_formed
            /\ Len(inspections[i].response.infos) = 1

\* --------------------------------------------------- faults, claims
\* The panics Drop::drop -> stop_blocking / rm_blocking can end with.
DisposalPanics ==
    {"expect: tokio runtime hasn't initialized",
     "already borrowed: BorrowMutError",
     "failed to spawn docker stop command",
     "failed to spawn docker rm command"}

\* The panics of the `.expect(..)` on Command::spawn.
SpawnPanics ==
    {"Failed to execute docker run command",
     "failed to spawn docker logs command",
     "failed to spawn docker inspect command",
     "failed to spawn docker stop command",
     "failed to spawn docker rm command"}

\* C14: disposal of a handle never panics, with or without a runtime
\* attached and whether or not stop / rm can be spawned.
C14_DisposalNeverPanics ==
    panic # None => panic[1] \notin DisposalPanics

\* C15: an operation whose engine command cannot be started does not panic.
C15_SpawnFailureNoPanic ==
    panic # None => panic[1] \notin SpawnPanics

\* C16: when a read of the log stream reports an I/O fault, the wait returns
\* Io, creation fails with Io, and nothing panics.
C16_IoFaultReturnsIo ==
    (reads # <<>> /\ reads[Len(reads)].kind = "fault") =>
        /\ waitResult = Some("Io")
        /\ result = Some("Io")
        /\ panic = None

\* C17: once wait_for_message has returned, the `docker logs -f` process it
\* spawned is no longer running.
C17_LogsProcessTerminated ==
    waitResult # None => logsProc # "running"

\* ------------------------------------------------- log access, claims
\* The instants at which the log commands of log-access call `call` were
\* spawned are its returned_at (print_*) or later (worker of
\* run_background_logs); the readiness wait's command is spawned at start_time.

\* C18: the readiness wait's log follow is opened no earlier than one second
\* after the creation timestamp of its handle.
C18_ReadinessFollowAfterGrace ==
    WaitCommands # <<>> =>
        start_time - container[1].startup_timestamp >= ONE_SECOND

\* C19: run_background_logs(false, false) spawns no worker thread, starts no
\* logs command, does not sleep, does not panic and leaves the handle as it
\* was.
C19_NeitherStreamIsNoOp ==
    \A i \in 1..Len(logCalls) :
        (/\ logCalls[i].op = "run_background_logs"
         /\ ~logCalls[i].stdout
         /\ ~logCalls[i].stderr)
        => /\ logCalls[i].returned
           /\ logCalls[i].returned_at = logCalls[i].at
           /\ logCalls[i].after = logCalls[i].before
           /\ logCalls[i].after.panic = None

\* The call is made within the grace period.
C19_Witness ==
    \E i \in 1..Len(logCalls) :
        /\ logCalls[i].op = "run_background_logs"
        /\ ~logCalls[i].stdout
        /\ ~logCalls[i].stderr
        /\ logCalls[i].at - container[1].startup_timestamp < ONE_SECOND

\* ---------------------------------------------- port lookup, claims
InspectCommands == SelectSeq(cmds, LAMBDA c : c.by = "get_container_info")

\* C20: every get_host_port call that found the binary has spawned one
\* inspect command of its own, and a call that returned has answered from
\* the description the engine reported at that call: None exactly when the
\* port has no binding then, otherwise one of the bindings reported then.
C20_FreshInspectPerCall ==
    /\ binary =>
          /\ Len(InspectCommands) = Len(inspections)
          /\ \A i \in 1..Len(InspectCommands) :
                InspectCommands[i] = docker_inspect(container[1].id)
    /\ \A i \in 1..Len(inspections) :
          LET call == inspections[i]
          IN call.returned # None =>
                /\ call.response.infos # <<>>
                /\ LET reported == BindingsOf(
                           call.response.infos[1].network_settings.ports,
                           call.internal_port)
                   IN /\ call.returned[1] = None <=> reported = {}
                      /\ call.returned[1] # None => call.returned[1][1] \in reported

\* The engine publishes the port between two calls: the first call answers
\* None, the second the new binding.
C20_Witness ==
    /\ Len(inspections) = 2
    /\ inspections[1].internal_port = inspections[2].internal_port
    /\ inspections[1].returned = Some(None)
    /\ inspections[2].returned = Some(Some(49155))
    /\ inspections[1].response # inspections[2].response

\* The panics of get_host_port that come from reading the inspect output.
ParsePanics ==
    {"unwrap: serde_json error", "remove: index out of bounds",
     "Failed to parse as u16"}

\* C26: a parse fault during port resolution (malformed JSON, a port or host
\* port that is not a number, a list of descriptions of unexpected size)
\* fails only that get_host_port call: after it the caller still runs and
\* still holds a usable handle.
C26_ParseFaultFailsOnlyThatCall ==
    \A i \in 1..Len(inspections) :
        (inspections[i].panic # None /\ inspections[i].panic[1] \in ParsePanics)
        => /\ pc = "held"
           /\ panic = None

\* C27: a container whose readiness wait has failed is not leaked: the
\* teardown verb chosen by KEEP_CONTAINERS has been issued exactly once, for
\* the identifier the run command returned.
C27_FailedReadinessNotLeaked ==
    (/\ waitResult \in {Some("EndOfStream"), Some("WaitDurationExpired"), Some("Io")}
     /\ pc # "waiting")
    => /\ Len(Teardowns) = 1
       /\ Teardowns[1] \in {rm_container(container[1].id),
                            stop_container(container[1].id)}
       /\ keepAtDrop # None
       /\ (Teardowns[1].by = "stop_container") <=> keep_container(keepAtDrop[1])

InCreation == pc \notin {"dropped"} /\ ~(pc = "panicked" /\ result = Some("Ok"))

\* What the caller of creation observes (the commands issued, what was
\* returned, whether the call panicked), written from the engine's behaviour
\* alone: nothing below reads `blocking`, `borrowed` or the handle's runtime.
CreationCommands ==
    IF engine = "absent" THEN <<>>
    ELSE IF logsProc = "none" THEN <<docker_run(image, <<>>, <<>>)>>
    ELSE <<docker_run(image, <<>>, <<>>),
           logs_follow(EngineId, readiness_stream(image.wait_for)[1])>>
CreationResult ==
    IF \/ container # None /\ readiness_stream(image.wait_for) = None
       \/ waitResult = Some("Ok")
    THEN Some("Ok") ELSE None
CreationPanicked ==
    \/ pc # "start" /\ engine = "absent"
    \/ container # None /\ readiness_stream(image.wait_for) # None /\ logsProc = "none"
    \/ waitResult \in {Some("EndOfStream"), Some("WaitDurationExpired"), Some("Io")}
    \/ reads # <<>> /\ reads[Len(reads)].kind = "fault"

FirstMarker ==
    LET wf == image.wait_for
        log == containerLog[wf.stream_type]
        hits == {i \in 1..Len(log) : Contains(log[i], wf.message)}
    IN IF hits = {} THEN 0 ELSE CHOOSE i \in hits : \A j \in hits : i <= j

RECURSIVE KeyValueList(_, _)
KeyValueList(map, order) ==
    IF order = <<>> THEN <<>>
    ELSE Head(order) \o <<"=">> \o map[Head(order)]
         \o (IF Tail(order) = <<>> THEN <<>>
             ELSE <<",">> \o KeyValueList(map, Tail(order)))

\* C22: the argument list of the run command is: run; then -e K=V once for
\* each environment variable; then one --mount k1=v1,k2=v2 pair for each
\* mount, the mounts in declaration order; then --network NAME exactly when
\* a network is set; then -d, -P and the descriptor; then the image's
\* arguments in declared order. -d and -P are there for every image.
C22_RunArgv ==
    \A c \in 1..Len(cmds) :
        cmds[c].by = "docker_run" =>
            LET argv == cmds[c].argv
                ne == Cardinality(DOMAIN image.env_vars)
                nm == Len(image.mounts)
                nn == IF image.network = None THEN 0 ELSE 2
                m0 == 2 + 2 * ne
                n0 == m0 + 2 * nm
                f0 == n0 + nn
            IN /\ Len(argv) = f0 + 3 + Len(image.args)
               /\ argv[1] = "docker"
               /\ argv[2] = "run"
               /\ \A i \in 1..ne :
                     /\ argv[2 + 2 * i - 1] = "-e"
                     /\ \E k \in DOMAIN image.env_vars :
                           argv[2 + 2 * i] = k \o <<"=">> \o image.env_vars[k]
               /\ \A k \in DOMAIN image.env_vars :
                     \E i \in 1..ne :
                        argv[2 + 2 * i] = k \o <<"=">> \o image.env_vars[k]
               /\ \A i \in 1..nm :
                     /\ argv[m0 + 2 * i - 1] = "--mount"
                     /\ \E o \in Orders(DOMAIN image.mounts[i]) :
                           argv[m0 + 2 * i] = KeyValueList(image.mounts[i], o)
               /\ image.network # None =>
                     /\ argv[n0 + 1] = "--network"
                     /\ argv[n0 + 2] = image.network[1]
               /\ argv[f0 + 1] = "-d"
               /\ argv[f0 + 2] = "-P"
               /\ argv[f0 + 3] = image.descriptor
               /\ SubSeq(argv, f0 + 4, Len(argv)) = image.args

C22_Witness ==
    /\ pc = "held"
    /\ cmds[1].by = "docker_run"
    /\ Cardinality(DOMAIN image.env_vars) = 2
    /\ Len(image.mounts) = 2
    /\ Cardinality(DOMAIN image.mounts[1]) = 2
    /\ image.mounts[2] # image.mounts[1]
    /\ image.network # None
    /\ Len(image.args) = 2
    /\ image.args[1] # image.args[2]

\* --------------------------------------------- background tailing, claims
\* The run_background_logs calls that asked for at least one stream.
TailingCalls ==
    {k \in 1..Len(logCalls) :
        /\ logCalls[k].op = "run_background_logs"
        /\ logCalls[k].stdout \/ logCalls[k].stderr}

\* A run_background_logs call for at least one stream has returned after at
\* most the grace period, having spawned no command and read no line
\* itself: what it leaves is a worker thread that has not started.
ReturnedWithoutTailing ==
    \A k \in TailingCalls :
        LET call == logCalls[k]
            spawned == call.after.workers[Len(call.after.workers)]
        IN /\ call.returned
           /\ call.returned_at - call.at <= ONE_SECOND
           /\ call.after.cmds = call.before.cmds
           /\ call.after.panic = call.before.panic
           /\ call.after.container = call.before.container
           /\ Len(call.after.workers) = Len(call.before.workers) + 1
           /\ spawned.state = "spawned"
           /\ spawned.stdout = call.stdout
           /\ spawned.stderr = call.stderr
           /\ \A s \in StreamTypes : spawned.forwarded[s] = 0

\* A worker has finished only if the container is no longer running.
FinishedOnlyAfterClose ==
    \A i \in 1..Len(workers) : workers[i].state = "done" => engine # "running"

\* A step that changes a worker is a step of that worker, not of the handle
\* (no call is made, the caller does not move, nothing is dropped), and a
\* tailing worker stops tailing only by finishing, the container not running.
WorkerStepsAreItsOwn ==
    \A i \in 1..Len(workers) :
        workers'[i] # workers[i] =>
            /\ pc' = pc
            /\ logCalls' = logCalls
            /\ dropCount' = dropCount
            /\ (workers[i].state = "tailing" /\ workers'[i].state # "tailing")
               => (workers'[i].state = "done" /\ engine # "running")

C25_BothTailsForwarded ==
    \A i \in 1..Len(workers) :
        (workers[i].stdout /\ workers[i].stderr) =>
            /\ workers[i].state = "done" =>
                  \A s \in StreamTypes : workers[i].tail[s] = "ended"
            /\ \A s \in StreamTypes :
                  /\ workers[i].tail[s] = "ended" =>
                        workers[i].forwarded[s] = Len(containerLog[s])
                  /\ workers[i].tail[s] # "stalled"


====
